---- MODULE Spec2Model ----
(***************************************************************************)
(* Model of ungoliant's language-sharded writer set (src/io/langfiles.rs)  *)
(* driven by the parallel shard pipeline (src/pipeline/rayon_shard.rs).    *)
(*                                                                         *)
(* Shard workers aggregate the classified lines of a shard by language and *)
(* flush them, language by language, through the per-language             *)
(* Arc<Mutex<Writer>> of the writer set.  The writer set is either the     *)
(* fixed LangFiles (one writer per language of LANG, built at             *)
(* construction) or the dynamic LangFilesDoc (an RwLock'ed map filled by   *)
(* insert_writer).  close_meta is called on the set by its owner.          *)
(*                                                                         *)
(* The specifications share the actions:                                   *)
(*   Spec     the shard pipeline over LangFiles, NbWorkers workers;        *)
(*   SpecDoc  the same flush protocol over LangFilesDoc (insert_writer     *)
(*            before each lookup), two threads;                            *)
(*   SpecApi  a single-threaded client of either writer set, which writes  *)
(*            and calls close_meta in any order;                           *)
(*   SpecRun  RayonShard::run from read_dir to its outcome, two threads,   *)
(*            in an environment that may fail (bad directory entries, bad  *)
(*            records, file errors);                                       *)
(*   SpecUnit process_record and ShardContent::insert on their own;        *)
(*   SpecMain the loop of main over the records of one WET file;           *)
(*   SpecFair the flush protocol with close_meta calls under fair          *)
(*            scheduling, up to the return of the run;                     *)
(*   SpecAnnot the two entry points of ContentDetector                     *)
(*            (src/transformers/content_detector.rs) on one document.      *)
(*                                                                         *)
(* Writer / WriterDoc themselves (io/writer.rs) are not part of the        *)
(* sources at hand; their write / rotation / close_meta behaviour follows  *)
(* the written specification (sections 3, 4.3 and 6).                      *)
(***************************************************************************)
EXTENDS Integers, Sequences, FiniteSets, TLC

\* ------------------------------------------------------------------ bounds
NbWorkers == 2
NbShards == 2
MaxLines == 2
MaxCloseCalls == 2

Workers == 1..NbWorkers

\* The static registry of languages (crate::lang::LANG), cut to two tags.
LANG == {"en", "fr"}

\* Option<T>
None == <<>>
Some(x) == <<x>>

\* part_size_bytes configurations explored, and byte sizes of a line.
PartSizeChoices == {None, Some(10), Some(40)}
ItemSizes == {20}

VARIABLES
    variant,          \* "Fixed" (LangFiles) or "Dynamic" (LangFilesDoc)
    part_size_bytes,  \* Option<u64> given at construction
    threads,          \* number of threads that use the writer set
    registry,         \* language -> writer state, or NoWriter
    created,          \* language -> number of writer instances constructed
    mutex,            \* language -> TRUE when the writer's Mutex is locked
    rwReaders,        \* read guards on the registry RwLock held across steps
    nextShard,        \* index of the next shard the parallel iterator yields
    pc,               \* thread -> position
    sorted_sentences, \* thread -> (language -> lines not yet flushed)
    cur,              \* thread -> language being flushed, or ""
    idx,              \* thread -> index of the item being written
    ctodo,            \* thread -> writers its close_meta call has yet to visit
    closeCalls,       \* number of close_meta calls started
    calls,            \* history: language -> write calls, in release order
    events,           \* history: language -> summary of the writes and
                      \* close_meta calls on the writer (see LogWrite)
    expected,         \* history: language -> lines aggregated for it so far
    kept,             \* history: thread -> its last insert_writer found a
                      \* writer that had been written to
    driver,           \* position of RayonShard::run: "read_dir", "new",
                      \* "for_each", or its outcome "Ok", "Err", "panic"
    faults,           \* TRUE when the environment may fail: bad directory
                      \* entries, bad records, file errors
    dir,              \* the source directory, until it is listed
    shards,           \* number of shards the shard iterator yields
    nb_shards,        \* Option<usize> given to RayonShard::new
    nb_records,       \* Option<usize> given to RayonShard::new
    over_records,     \* history: a shard had more records processed than
                      \* nb_records
    record,           \* process_record under test: its argument
    results,          \* process_record under test: its return value
    aggregator,       \* ShardContent under test
    inserted,         \* history: the insert calls made on aggregator
    filtered_out,     \* history: directory entries the listing dropped
    wet,              \* main: records of the WET file not yet fetched
    printed,          \* main: number of predictions printed
    doc,              \* ContentDetector: the Document handed to it
    bl,               \* ContentDetector: its blocklist
    in_place,         \* outcome of transform(&mut doc)
    by_value          \* outcome of transform_own(doc)

\* Variables no thread of the pool ever changes.
unitVars == <<record, results, aggregator, inserted>>
mainVars == <<wet, printed>>
annotVars == <<doc, bl, in_place, by_value>>
envVars == <<faults, dir, shards, nb_shards, nb_records, filtered_out,
             unitVars, mainVars, annotVars>>

\* The writer set and the threads that use it.
threadVars == <<variant, part_size_bytes, threads, registry, created, mutex,
                rwReaders, nextShard, pc, sorted_sentences, cur, idx, ctodo,
                closeCalls, calls, events, expected, kept>>

vars == <<threadVars, driver, over_records, envVars>>

NoWriter == [inst |-> 0]

\* The directory once listed, no record under test, and process_record not
\* called yet.
NoDir == [readable |-> TRUE, entries |-> <<>>]
NoRecord == [utf8 |-> FALSE, lines |-> <<>>]
NotCalled == [done |-> FALSE, value |-> <<>>]

\* No document under annotation, an empty blocklist, and an entry point of
\* ContentDetector not called yet.
NoDocument == [uri |-> <<>>, annotation |-> <<>>]
NoBlocklist == [kind |-> "", domains |-> {}, urls |-> {}]
NotTransformed == [done |-> FALSE, panicked |-> FALSE, annotation |-> <<>>]

\* ------------------------------------------------- metadata stream framing
LB == <<"[">>
RB == <<"]">>
COMMA == <<",">>
Entry(id) == <<"e", id[1], id[2]>>
IsEntry(t) == Len(t) = 3
EntryId(t) == <<t[2], t[3]>>

\* Strip a trailing separator, append the closing delimiter.
CloseFrame(f) ==
    (IF Len(f) > 0 /\ f[Len(f)] = COMMA THEN SubSeq(f, 1, Len(f) - 1) ELSE f)
        \o <<RB>>

\* The file read back as an array: "[" (entry ("," entry)*)? "]".
FrameValid(f) ==
    /\ Len(f) >= 2
    /\ f[1] = LB
    /\ f[Len(f)] = RB
    /\ LET m == SubSeq(f, 2, Len(f) - 1) IN
        \/ Len(m) = 0
        \/ /\ Len(m) % 2 = 1
           /\ \A i \in 1..Len(m) :
                IF i % 2 = 1 THEN IsEntry(m[i]) ELSE m[i] = COMMA

ParseMeta(f) ==
    LET m == SubSeq(f, 2, Len(f) - 1) IN
    [i \in 1..((Len(m) + 1) \div 2) |-> EntryId(m[2 * i - 1])]

\* ------------------------------------------------------------------ Writer
Writer_new(size_limit, inst) ==
    [inst |-> inst, size_limit |-> size_limit, part |-> 0, bytes |-> 0,
     parts |-> << <<>> >>, metas |-> << <<LB>> >>]

\* Variant of NeedsRotation that forgets the "current part is not empty" test.
NeedsRotation_ignoring_empty_part(wr, size) ==
    /\ wr.size_limit # None
    /\ wr.bytes + size > wr.size_limit[1]

NeedsRotation(wr, size) ==
    /\ wr.size_limit # None
    /\ wr.bytes + size > wr.size_limit[1]
    /\ Len(wr.parts[Len(wr.parts)]) > 0

Rotate(wr) ==
    [wr EXCEPT !.part = @ + 1,
               !.bytes = 0,
               !.parts = Append(@, <<>>),
               !.metas = Append([@ EXCEPT ![Len(@)] = CloseFrame(@)], <<LB>>)]

Writer_write_content(wr, item) ==
    LET w1 == IF NeedsRotation(wr, item.size) THEN Rotate(wr) ELSE wr IN
    [w1 EXCEPT !.parts[Len(w1.parts)] = Append(@, item.id),
               !.bytes = @ + item.size]

Writer_write_meta(wr, item) ==
    [wr EXCEPT !.metas[Len(wr.metas)] = @ \o <<Entry(item.id), COMMA>>]

Writer_close_meta(wr) ==
    [wr EXCEPT !.metas[Len(wr.metas)] = CloseFrame(@)]

\* ---------------------------------------------------------- process_record
\* The length filter of process_record: a line is kept when it has more
\* characters than this.
MinChars == 100

\* A line of a record body: its number of characters, what the classifier
\* answers for it ("Err": predict fails, "None": no prediction, or the top
\* label), and its size in the output.
Labels == LANG \cup {"xx"}
Predictions == {"Err", "None"} \cup Labels
LineChars == {5, 100, 101, 120}
Lines == [chars : LineChars, pred : Predictions, size : ItemSizes]

\* A raw record: whether its body is valid UTF-8, and the lines of the body.
BodiesUpTo(n, lineSet) == UNION {[1..k -> lineSet] : k \in 0..n}
RawRecords ==
    {[utf8 |-> TRUE, lines |-> b] : b \in BodiesUpTo(MaxLines, Lines)}
        \cup {[utf8 |-> FALSE, lines |-> <<>>]}

\* LANG.get(label)
LANG_get(label) == IF label \in LANG THEN Some(label) ELSE None

\* cls.predict(sentence).ok(), then the match on Some(Some(lang)) and on
\* LANG.get: the language of the line, or None.
Predicted(line) ==
    LET prediction == IF line.pred = "Err" THEN None ELSE Some(line.pred) IN
    IF prediction # None /\ prediction[1] # "None"
    THEN LANG_get(prediction[1])
    ELSE None

\* Variant of KeepsLine that keeps lines of MinChars characters too.
KeepsLine_at_least(line) == line.chars >= MinChars

\* filter(|line| line.chars().count() > 100)
KeepsLine(line) == line.chars > MinChars

\* The filter and filter_map over the lines from index i on: the kept
\* sentences, each named by its index in the body, with their language.
RECURSIVE Classify(_, _)
Classify(body, i) ==
    IF i > Len(body) THEN <<>>
    ELSE (IF KeepsLine(body[i]) /\ Predicted(body[i]) # None
          THEN << <<i, Predicted(body[i])[1]>> >>
          ELSE <<>>) \o Classify(body, i + 1)

\* RayonShard::process_record: None when the body is not valid UTF-8.
process_record(rec) ==
    IF rec.utf8 THEN Some(Classify(rec.lines, 1)) ELSE None

\* ------------------------------------------------------------ ShardContent
\* What the archive reader yields for a shard: records, each holding one
\* line that process_record keeps; or also records that are errors (ok is
\* FALSE) and records whose body is not valid UTF-8.
GoodLines == [chars : {120}, pred : LANG, size : ItemSizes]
GoodRecords == {[ok |-> TRUE, utf8 |-> TRUE, lines |-> <<ln>>] : ln \in GoodLines}
FaultyRecords ==
    GoodRecords \cup {[ok |-> TRUE, utf8 |-> FALSE, lines |-> <<>>],
                      [ok |-> FALSE, utf8 |-> FALSE, lines |-> <<>>]}

\* The shards a worker may be handed: sequences of records, all good or not.
ShardInputs == UNION {[1..n -> GoodRecords] : n \in 0..MaxLines}
ShardInputsFaulty == UNION {[1..n -> FaultyRecords] : n \in 0..MaxLines}

\* Variant of shard_results in which a bad record ends the shard's results.
RECURSIVE shard_results_stopping(_, _)
shard_results_stopping(shard, k) ==
    IF k > Len(shard) THEN <<>>
    ELSE IF ~shard[k].ok \/ ~shard[k].utf8 THEN <<>>
    ELSE LET r == process_record(shard[k]) IN
         [j \in 1..Len(r[1]) |->
            <<r[1][j][2], shard[k].lines[r[1][j][1]].size>>]
            \o shard_results_stopping(shard, k + 1)

\* The filter_map over the records of a shard, flattened in record order:
\* <<language, size>> of every sentence process_record returned.  Records
\* that are errors and records process_record answers None for give nothing.
RECURSIVE shard_results(_, _)
shard_results(shard, k) ==
    IF k > Len(shard) THEN <<>>
    ELSE LET r == IF shard[k].ok THEN process_record(shard[k]) ELSE None IN
         (IF r = None THEN <<>>
          ELSE [j \in 1..Len(r[1]) |->
                    <<r[1][j][2], shard[k].lines[r[1][j][1]].size>>])
            \o shard_results(shard, k + 1)

\* Lines of a shard that qualify for language l: in a record that was read
\* and decodes, longer than MinChars, and labelled l.
QualifyingLines(shard, l) ==
    Cardinality({<<k, i>> \in (1..Len(shard)) \X (1..1) :
        /\ shard[k].ok /\ shard[k].utf8
        /\ i <= Len(shard[k].lines)
        /\ shard[k].lines[i].chars > MinChars
        /\ shard[k].lines[i].pred = l})

RECURSIVE ShardContent_insert_all(_, _, _, _)
\* Variant of ShardContent_insert that starts a new vector on every call.
ShardContent_insert_replacing(inner, sentence, lang) ==
    [inner EXCEPT ![lang] = <<sentence>>]

ShardContent_insert(inner, sentence, lang) ==
    [inner EXCEPT ![lang] = Append(@, sentence)]

\* A sentence is named by its shard and its rank among the shard's lines of
\* the same language.
ShardContent_insert_all(inner, lines, shard, k) ==
    IF k > Len(lines) THEN inner
    ELSE ShardContent_insert_all(
            ShardContent_insert(inner,
                                [id |-> <<shard, Len(inner[lines[k][1]]) + 1>>,
                                 size |-> lines[k][2]],
                                lines[k][1]),
            lines, shard, k + 1)

ShardContent_new == [l \in LANG |-> <<>>]

\* Variant of Keys in which the flush loop misses the "fr" entry.
Keys_missing_one(inner) == {l \in LANG \ {"fr"} : Len(inner[l]) > 0}

Keys(inner) == {l \in LANG : Len(inner[l]) > 0}

\* --------------------------------------------------------------- LangFiles
\* Variant of LangFiles_new that does not hand part_size_bytes to the writers.
LangFiles_new_unbounded(size_limit) == [l \in LANG |-> Writer_new(None, 1)]

LangFiles_new(size_limit) == [l \in LANG |-> Writer_new(size_limit, 1)]

LangFilesDoc_new == [l \in LANG |-> NoWriter]

\* Variant of new_writer that hands a fixed limit to the writer.
new_writer_fixed_limit(size_limit, inst) == Writer_new(Some(10), inst)

new_writer(size_limit, inst) == Writer_new(size_limit, inst)

\* Variant of or_insert behaving as HashMap::insert (the old writer is lost).
or_insert_overwriting(entry, value) == value

or_insert(entry, value) == IF entry = NoWriter THEN value ELSE entry

\* Variant of close_meta_values in which the loop misses the "fr" writer.
close_meta_values_missing_one(reg) == {l \in LANG \ {"fr"} : reg[l] # NoWriter}

close_meta_values(reg) == {l \in LANG : reg[l] # NoWriter}

\* Variant of CanLock that never blocks.
CanLock_never_blocking(m, l) == TRUE

CanLock(m, l) == ~m[l]

\* Variant of Unlock in which the guard is leaked: the Mutex stays locked.
Unlock_leaking(m, l) == m

\* The MutexGuard is dropped.
Unlock(m, l) == [m EXCEPT ![l] = FALSE]

\* A thread holds the writer of l from lock() until the guard is dropped.
Holds(w, l) == cur[w] = l /\ pc[w] \in {"content", "meta"}

\* Position of a thread that turns to a language: LangFilesDoc needs the
\* writer inserted first.
FlushEntry == IF variant = "Dynamic" THEN "insert" ELSE "get"

\* No function is under test, and main is not run.
NothingAnnotated ==
    /\ doc = NoDocument
    /\ bl = NoBlocklist
    /\ in_place = NotTransformed
    /\ by_value = NotTransformed

NothingUnderTest ==
    /\ record = NoRecord
    /\ results = NotCalled
    /\ aggregator = ShardContent_new
    /\ inserted = <<>>
    /\ wet = <<>>
    /\ printed = 0
    /\ NothingAnnotated

InitOf(v, n, sizes) ==
    /\ variant = v
    /\ threads = n
    /\ part_size_bytes \in sizes
    /\ registry = IF variant = "Fixed" THEN LangFiles_new(part_size_bytes)
                  ELSE LangFilesDoc_new
    /\ created = [l \in LANG |-> IF variant = "Fixed" THEN 1 ELSE 0]
    /\ mutex = [l \in LANG |-> FALSE]
    /\ rwReaders = 0
    /\ nextShard = 1
    /\ pc = [w \in Workers |-> "idle"]
    /\ sorted_sentences = [w \in Workers |-> ShardContent_new]
    /\ cur = [w \in Workers |-> ""]
    /\ idx = [w \in Workers |-> 0]
    /\ ctodo = [w \in Workers |-> {}]
    /\ closeCalls = 0
    /\ calls = [l \in LANG |-> <<>>]
    /\ events = [l \in LANG |-> "never"]
    /\ expected = [l \in LANG |-> 0]
    /\ kept = [w \in Workers |-> FALSE]
    /\ driver = "for_each"
    /\ faults = FALSE
    /\ dir = NoDir
    /\ shards = NbShards
    /\ nb_shards = None
    /\ nb_records = None
    /\ over_records = FALSE
    /\ filtered_out = 0
    /\ NothingUnderTest

\* The state of the threads and of the writer set before LangFiles::new.
InitThreads(n) ==
    /\ variant = "Fixed"
    /\ threads = n
    /\ part_size_bytes = None
    /\ registry = LangFilesDoc_new
    /\ created = [l \in LANG |-> 0]
    /\ mutex = [l \in LANG |-> FALSE]
    /\ rwReaders = 0
    /\ nextShard = 1
    /\ pc = [w \in Workers |-> "idle"]
    /\ sorted_sentences = [w \in Workers |-> ShardContent_new]
    /\ cur = [w \in Workers |-> ""]
    /\ idx = [w \in Workers |-> 0]
    /\ ctodo = [w \in Workers |-> {}]
    /\ closeCalls = 0
    /\ calls = [l \in LANG |-> <<>>]
    /\ events = [l \in LANG |-> "never"]
    /\ expected = [l \in LANG |-> 0]
    /\ kept = [w \in Workers |-> FALSE]
    /\ over_records = FALSE

\* ------------------------------------------------------- history operators
\* events[l] summarises the order of write and close_meta calls on l:
\*   "never"  close_meta was never called on it;
\*   "once"   called exactly once, and no write call began after it;
\*   "once_w" called exactly once, and a write call began after it;
\*   "many"   called more than once, no write call after the last one;
\*   "many_w" called more than once, a write call began after the last one.
\* A write call begun while a close_meta call has yet to visit the writer
\* happens before that close and leaves the summary as it is.
LogWrite(ev, pending) ==
    IF pending THEN ev
    ELSE CASE ev = "never" -> "never"
           [] ev \in {"once", "once_w"} -> "once_w"
           [] OTHER -> "many_w"

LogClose(ev) == IF ev = "never" THEN "once" ELSE "many"

\* A close_meta call has begun and has yet to visit the writer of l.
ClosePending(l) == \E v \in Workers : pc[v] = "closing" /\ l \in ctodo[v]

\* --------------------------------------------------------- RayonShard::run
\* A free thread of the pool takes the next shard, processes all its records
\* (nb_records is not consulted) and stores the predictions into
\* sorted_sentences; the flush loop then starts
\* with whichever language the map yields first.  The threads of the pool
\* are interchangeable: the lowest-numbered free one takes the shard.
TakeShard(w) ==
    /\ driver = "for_each"
    /\ pc[w] = "idle"
    /\ w <= threads
    /\ \A v \in Workers : v < w => pc[v] # "idle"
    /\ nextShard <= shards
    /\ nextShard' = nextShard + 1
    /\ \E shard \in (IF faults THEN ShardInputsFaulty ELSE ShardInputs) :
        LET content == ShardContent_insert_all(ShardContent_new,
                            shard_results(shard, 1), nextShard, 1) IN
        /\ sorted_sentences' = [sorted_sentences EXCEPT ![w] = content]
        /\ expected' = [l \in LANG |->
                            expected[l] + QualifyingLines(shard, l)]
        /\ over_records' = (over_records \/
                            (nb_records # None /\ Len(shard) > nb_records[1]))
        /\ IF Keys(content) = {}
           THEN UNCHANGED <<pc, cur>>
           ELSE /\ pc' = [pc EXCEPT ![w] = FlushEntry]
                /\ \E l \in Keys(content) : cur' = [cur EXCEPT ![w] = l]
    /\ UNCHANGED <<variant, part_size_bytes, threads, registry, created,
                   mutex, rwReaders, idx, ctodo, closeCalls, calls, events,
                   kept>>
    /\ UNCHANGED <<driver, envVars>>

\* LangFilesDoc::insert_writer: self.writers.write() waits until no guard is
\* held on the map; the argument of or_insert is evaluated first (a writer
\* is constructed), then the entry is looked up; the write guard is dropped
\* on return.
InsertWriter(w) ==
    /\ driver = "for_each"
    /\ pc[w] = "insert"
    /\ rwReaders = 0
    /\ LET k == cur[w]
           value == new_writer(part_size_bytes, created[k] + 1) IN
        /\ created' = [created EXCEPT ![k] = @ + 1]
        /\ registry' = [registry EXCEPT ![k] = or_insert(@, value)]
        /\ kept' = [kept EXCEPT ![w] =
                        /\ registry[k] # NoWriter
                        /\ Len(registry[k].parts[1]) > 0]
    /\ pc' = [pc EXCEPT ![w] = "get"]
    /\ UNCHANGED <<variant, part_size_bytes, threads, mutex, rwReaders,
                   nextShard, sorted_sentences, cur, idx, ctodo, closeCalls,
                   calls, events, expected>>
    /\ UNCHANGED <<driver, over_records, envVars>>

\* writers().get(lang).unwrap() then lock(): blocks while the Mutex is held.
Acquire(w) ==
    /\ driver = "for_each"
    /\ pc[w] = "get"
    /\ registry[cur[w]] # NoWriter
    /\ CanLock(mutex, cur[w])
    /\ mutex' = [mutex EXCEPT ![cur[w]] = TRUE]
    /\ idx' = [idx EXCEPT ![w] = 1]
    /\ events' = [events EXCEPT ![cur[w]] = LogWrite(@, ClosePending(cur[w]))]
    /\ pc' = [pc EXCEPT ![w] = "content"]
    /\ UNCHANGED <<variant, part_size_bytes, threads, registry, created,
                   rwReaders, nextShard, sorted_sentences, cur, ctodo,
                   closeCalls, calls, expected, kept>>
    /\ UNCHANGED <<driver, over_records, envVars>>

\* Writer::write, per item: rotate if needed, append the text to the part.
WriteContent(w) ==
    /\ driver = "for_each"
    /\ pc[w] = "content"
    /\ LET l == cur[w]
           item == sorted_sentences[w][l][idx[w]] IN
        registry' = [registry EXCEPT ![l] = Writer_write_content(@, item)]
    /\ pc' = [pc EXCEPT ![w] = "meta"]
    /\ UNCHANGED <<variant, part_size_bytes, threads, created, mutex,
                   rwReaders, nextShard, sorted_sentences, cur, idx, ctodo,
                   closeCalls, calls, events, expected, kept>>
    /\ UNCHANGED <<driver, over_records, envVars>>

\* Writer::write, per item: append the metadata record, then go on with the
\* next item.
WriteMeta(w) ==
    /\ driver = "for_each"
    /\ pc[w] = "meta"
    /\ idx[w] < Len(sorted_sentences[w][cur[w]])
    /\ LET l == cur[w]
           item == sorted_sentences[w][l][idx[w]] IN
        registry' = [registry EXCEPT ![l] = Writer_write_meta(@, item)]
    /\ idx' = [idx EXCEPT ![w] = @ + 1]
    /\ pc' = [pc EXCEPT ![w] = "content"]
    /\ UNCHANGED <<variant, part_size_bytes, threads, created, mutex,
                   rwReaders, nextShard, sorted_sentences, cur, ctodo,
                   closeCalls, calls, events, expected, kept>>
    /\ UNCHANGED <<driver, over_records, envVars>>

\* Writer::write, last item: append the metadata record and return; the
\* guard is dropped at the end of the loop body.  The loop goes on with the
\* next language the map yields, and the shard is done after the last one.
WriteMetaRelease(w) ==
    /\ driver = "for_each"
    /\ pc[w] = "meta"
    /\ idx[w] = Len(sorted_sentences[w][cur[w]])
    /\ LET l == cur[w]
           item == sorted_sentences[w][l][idx[w]]
           rest == [sorted_sentences[w] EXCEPT ![l] = <<>>] IN
        /\ registry' = [registry EXCEPT ![l] = Writer_write_meta(@, item)]
        /\ mutex' = Unlock(mutex, l)
        /\ calls' = [calls EXCEPT ![l] = Append(@, sorted_sentences[w][l])]
        /\ sorted_sentences' = [sorted_sentences EXCEPT ![w] = rest]
        /\ IF Keys(rest) = {}
           THEN /\ pc' = [pc EXCEPT ![w] = "idle"]
                /\ cur' = [cur EXCEPT ![w] = ""]
           ELSE /\ pc' = [pc EXCEPT ![w] = FlushEntry]
                /\ \E n \in Keys(rest) : cur' = [cur EXCEPT ![w] = n]
    /\ idx' = [idx EXCEPT ![w] = 0]
    /\ UNCHANGED <<variant, part_size_bytes, threads, created, rwReaders,
                   nextShard, ctodo, closeCalls, events, expected, kept>>
    /\ UNCHANGED <<driver, over_records, envVars>>

\* ------------------------------------------------- LangFiles*::close_meta
\* Entry, called by a thread that is not writing: LangFilesDoc takes a read
\* guard on the map and keeps it for the whole loop; LangFiles iterates its
\* map directly.  An empty map makes the call return at once.
CloseMetaBegin(w) ==
    /\ driver = "for_each"
    /\ pc[w] = "idle"
    /\ w <= threads
    /\ closeCalls < MaxCloseCalls
    /\ closeCalls' = closeCalls + 1
    /\ events' = [l \in LANG |-> IF registry[l] # NoWriter
                                 THEN LogClose(events[l]) ELSE events[l]]
    /\ LET todo == close_meta_values(registry) IN
        /\ ctodo' = [ctodo EXCEPT ![w] = todo]
        /\ pc' = [pc EXCEPT ![w] = IF todo = {} THEN "idle" ELSE "closing"]
        /\ rwReaders' = IF variant = "Dynamic" /\ todo # {}
                        THEN rwReaders + 1 ELSE rwReaders
    /\ UNCHANGED <<variant, part_size_bytes, threads, registry, created,
                   mutex, nextShard, sorted_sentences, cur, idx, calls,
                   expected, kept>>
    /\ UNCHANGED <<driver, over_records, envVars>>

\* One iteration: writer.lock().unwrap(); writer_lock.close_meta()?; the
\* guard is dropped at the end of the iteration.  After the last writer the
\* read guard is dropped and the call returns.
CloseMetaOne(w) ==
    /\ driver = "for_each"
    /\ pc[w] = "closing"
    /\ \E l \in ctodo[w] :
        /\ CanLock(mutex, l)
        /\ registry' = [registry EXCEPT ![l] = Writer_close_meta(@)]
        /\ ctodo' = [ctodo EXCEPT ![w] = @ \ {l}]
        /\ pc' = [pc EXCEPT ![w] = IF ctodo[w] = {l} THEN "idle"
                                   ELSE "closing"]
        /\ rwReaders' = IF variant = "Dynamic" /\ ctodo[w] = {l}
                        THEN rwReaders - 1 ELSE rwReaders
    /\ UNCHANGED <<variant, part_size_bytes, threads, created, mutex,
                   nextShard, sorted_sentences, cur, idx, closeCalls, calls,
                   events, expected, kept>>
    /\ UNCHANGED <<driver, over_records, envVars>>

\* ----------------------------- process_record and ShardContent on their own
MaxInserts == 3

\* process_record is called on the record.
ProcessRecord ==
    /\ driver = "unit"
    /\ ~results.done
    /\ results' = [done |-> TRUE, value |-> process_record(record)]
    /\ UNCHANGED <<threadVars, driver, over_records, faults, dir, shards,
                   nb_shards, nb_records, filtered_out, record, aggregator,
                   inserted, mainVars, annotVars>>

\* ShardContent::insert is called once more; the sentence is named by the
\* rank of the call.
Insert(lang) ==
    /\ driver = "unit"
    /\ Len(inserted) < MaxInserts
    /\ aggregator' = ShardContent_insert(aggregator, Len(inserted) + 1, lang)
    /\ inserted' = Append(inserted, <<Len(inserted) + 1, lang>>)
    /\ UNCHANGED <<threadVars, driver, over_records, faults, dir, shards,
                   nb_shards, nb_records, filtered_out, record, results,
                   mainVars, annotVars>>

NextUnit ==
    \/ ProcessRecord
    \/ \E lang \in LANG : Insert(lang)

InitUnit ==
    /\ InitThreads(1)
    /\ driver = "unit"
    /\ faults = FALSE
    /\ dir = NoDir
    /\ shards = 0
    /\ nb_shards = None
    /\ nb_records = None
    /\ filtered_out = 0
    /\ record \in RawRecords
    /\ results = NotCalled
    /\ aggregator = ShardContent_new
    /\ inserted = <<>>
    /\ wet = <<>>
    /\ printed = 0
    /\ NothingAnnotated

\* process_record on any record, and any sequence of ShardContent::insert
\* calls on a fresh ShardContent.
SpecUnit == InitUnit /\ [][NextUnit]_vars

\* -------------------------------------------------------------------- main
MaxRecords == 4

\* What the reader of the WET file yields: records, some of them errors.
WetFiles == UNION {[1..n -> FaultyRecords] : n \in 0..MaxRecords}

\* Lines of a record that main prints a prediction for: valid_len, and the
\* classifier answers with a prediction (unwrap_or(None) turns a failure of
\* predict into no prediction).
Predictions_of(rec) ==
    Cardinality({i \in DOMAIN rec.lines :
                    /\ KeepsLine(rec.lines[i])
                    /\ rec.lines[i].pred \notin {"Err", "None"}})

\* into_iter().skip(1), then println!("{:?}", warc_record.next()): the first
\* two records are consumed, whatever they are.
MainSkip ==
    /\ driver = "main"
    /\ wet' = SubSeq(wet, 3, Len(wet))
    /\ driver' = "for_record"
    /\ UNCHANGED <<threadVars, over_records, faults, dir, shards, nb_shards,
                   nb_records, filtered_out, unitVars, printed, annotVars>>

\* One iteration of the loop over the records: expect() panics on a record
\* that is an error; otherwise the predictions of its lines are printed.
MainRecord ==
    /\ driver = "for_record"
    /\ Len(wet) > 0
    /\ IF Head(wet).ok
       THEN /\ printed' = printed + Predictions_of(Head(wet))
            /\ wet' = Tail(wet)
            /\ driver' = "for_record"
       ELSE /\ driver' = "panic"
            /\ UNCHANGED <<wet, printed>>
    /\ UNCHANGED <<threadVars, over_records, faults, dir, shards, nb_shards,
                   nb_records, filtered_out, unitVars, annotVars>>

\* The loop is over: main returns Ok(()).
MainReturn ==
    /\ driver = "for_record"
    /\ Len(wet) = 0
    /\ driver' = "Ok"
    /\ UNCHANGED <<threadVars, over_records, envVars>>

NextMain ==
    \/ MainSkip
    \/ MainRecord
    \/ MainReturn

InitMain ==
    /\ InitThreads(1)
    /\ driver = "main"
    /\ faults = TRUE
    /\ dir = NoDir
    /\ shards = 0
    /\ nb_shards = None
    /\ nb_records = None
    /\ filtered_out = 0
    /\ record = NoRecord
    /\ results = NotCalled
    /\ aggregator = ShardContent_new
    /\ inserted = <<>>
    /\ wet \in WetFiles
    /\ printed = 0
    /\ NothingAnnotated

\* main on any WET file that can be opened.
SpecMain == InitMain /\ [][NextMain]_vars

\* --------------------------------------------------------- ContentDetector
\* What the WARC-Target-URI header of a document may hold: nothing (None),
\* bytes that Url::from_str rejects, or a URL.
Domains == {"a.org", "b.org"}
Paths == {"/", "/x"}
Urls == [domain : Domains, path : Paths]
Unparseable == [domain |-> "", path |-> "not a url"]
TargetURIs == {None, Some(Unparseable)} \cup {Some(u) : u \in Urls}

\* The annotation a document carries before the annotator sees it.
PriorAnnotations == {None, Some("prior")}
Documents == [uri : TargetURIs, annotation : PriorAnnotations]

\* The blocklist of the detector: its kind, its domains and its URLs.
Blocklists == [kind : {"adult"}, domains : SUBSET Domains, urls : SUBSET Urls]

\* Url::from_str(&url): Ok(url) or Err.
Url_from_str(x) == IF x \in Urls THEN Some(x) ELSE None

\* Blocklist::detect_domain and Blocklist::detect_url.
detect_domain(b, url) == url.domain \in b.domains
detect_url(b, url) == url \in b.urls

\* ContentDetector::parse_url: get(TargetURI).map(lossy).and_then(from_str.ok)
parse_url(d) == IF d.uri = None THEN None ELSE Url_from_str(d.uri[1])

\* doc.metadata_mut().set_annotation(Some(self.bl.kind().to_string()))
set_annotation(d, b) == [d EXCEPT !.annotation = Some(b.kind)]

Returned(d) == [done |-> TRUE, panicked |-> FALSE, annotation |-> d.annotation]
Panicked(d) == [done |-> TRUE, panicked |-> TRUE, annotation |-> d.annotation]

\* ContentDetector::transform: get(TargetURI).unwrap() panics on a missing
\* header, Url::from_str(..).unwrap() on a value that is not a URL; then the
\* annotation is set when detect_domain answers true.
transform(b, d) ==
    IF d.uri = None THEN Panicked(d)
    ELSE IF Url_from_str(d.uri[1]) = None THEN Panicked(d)
    ELSE IF detect_domain(b, Url_from_str(d.uri[1])[1])
         THEN Returned(set_annotation(d, b))
         ELSE Returned(d)

\* Transform::transform_own: the document comes back as it is when parse_url
\* finds no URL; the annotation is set when detect_domain or detect_url
\* answers true.
transform_own(b, d) ==
    LET url == parse_url(d) IN
    IF url = None THEN Returned(d)
    ELSE IF detect_domain(b, url[1]) \/ detect_url(b, url[1])
         THEN Returned(set_annotation(d, b))
         ELSE Returned(d)

\* transform is called on the document.
Transform ==
    /\ driver = "annotate"
    /\ ~in_place.done
    /\ in_place' = transform(bl, doc)
    /\ UNCHANGED <<threadVars, driver, over_records, faults, dir, shards,
                   nb_shards, nb_records, filtered_out, unitVars, mainVars,
                   doc, bl, by_value>>

\* transform_own is called on (a copy of) the document.
TransformOwn ==
    /\ driver = "annotate"
    /\ ~by_value.done
    /\ by_value' = transform_own(bl, doc)
    /\ UNCHANGED <<threadVars, driver, over_records, faults, dir, shards,
                   nb_shards, nb_records, filtered_out, unitVars, mainVars,
                   doc, bl, in_place>>

NextAnnot ==
    \/ Transform
    \/ TransformOwn

InitAnnot ==
    /\ InitThreads(1)
    /\ driver = "annotate"
    /\ faults = FALSE
    /\ dir = NoDir
    /\ shards = 0
    /\ nb_shards = None
    /\ nb_records = None
    /\ filtered_out = 0
    /\ record = NoRecord
    /\ results = NotCalled
    /\ aggregator = ShardContent_new
    /\ inserted = <<>>
    /\ wet = <<>>
    /\ printed = 0
    /\ doc \in Documents
    /\ bl \in Blocklists
    /\ in_place = NotTransformed
    /\ by_value = NotTransformed

\* Both entry points on any document, with any blocklist.
SpecAnnot == InitAnnot /\ [][NextAnnot]_vars

\* ------------------------------------------------ RayonShard::run, driver
\* What read_dir may find in the source directory: the directory cannot be
\* enumerated, or it yields entries: a WET archive, an entry whose reading
\* fails, or a file that is no gzipped WET archive.
EntryKinds == {"wet", "entry_err", "not_wet"}
Dirs(faulty) ==
    {[readable |-> TRUE, entries |-> e] :
        e \in UNION {[1..n -> IF faulty THEN EntryKinds ELSE {"wet"}] :
                        n \in 0..NbShards}}
        \cup (IF faulty THEN {[readable |-> FALSE, entries |-> <<>>]} ELSE {})

\* nb_shards / nb_records configurations explored.
LimitChoices == {None, Some(1)}

\* Variant of ValidShards in which the listing ends at the first bad entry.
RECURSIVE ValidShards_until_bad(_)
ValidShards_until_bad(entries) ==
    IF Len(entries) = 0 \/ Head(entries) # "wet" THEN 0
    ELSE 1 + ValidShards_until_bad(Tail(entries))

\* filter_map(|shard| shard.ok()) then
\* filter_map(|shard| Wet::from_path_gzip(..).ok()): the number of shards
\* the iterator yields.  The commented-out take(nb_shards) is not applied.
RECURSIVE ValidShards(_)
ValidShards(entries) ==
    IF Len(entries) = 0 THEN 0
    ELSE (IF Head(entries) = "wet" THEN 1 ELSE 0) + ValidShards(Tail(entries))

\* std::fs::read_dir(&self.src)? and the shard iterator built on it.
ListShards ==
    /\ driver = "read_dir"
    /\ IF dir.readable
       THEN /\ shards' = ValidShards(dir.entries)
            /\ driver' = "new"
       ELSE /\ shards' = 0
            /\ driver' = "Err"
    /\ filtered_out' = Len(dir.entries) - shards'
    /\ dir' = NoDir
    /\ UNCHANGED <<threadVars, over_records, faults, nb_shards, nb_records,
                   unitVars, mainVars, annotVars>>

\* The order in which LANG.iter() yields the languages.
LangOrder == <<"en", "fr">>

\* Variant of LangFiles_new_result that skips a language whose writer cannot
\* be created.
RECURSIVE LangFiles_new_result_skipping(_, _, _, _)
LangFiles_new_result_skipping(size_limit, failing, writers, i) ==
    IF i > Len(LangOrder) THEN [ok |-> TRUE, writers |-> writers]
    ELSE LangFiles_new_result_skipping(size_limit, failing,
            IF LangOrder[i] \in failing THEN writers
            ELSE [writers EXCEPT ![LangOrder[i]] = Writer_new(size_limit, 1)],
            i + 1)

\* LangFiles::new as a Result: the loop over LANG returns the first error of
\* Writer::new (no set is returned then); failing is the set of languages
\* whose files cannot be created.
RECURSIVE LangFiles_new_result(_, _, _, _)
LangFiles_new_result(size_limit, failing, writers, i) ==
    IF i > Len(LangOrder) THEN [ok |-> TRUE, writers |-> writers]
    ELSE IF LangOrder[i] \in failing
         THEN [ok |-> FALSE, writers |-> LangFilesDoc_new]
         ELSE LangFiles_new_result(size_limit, failing,
                [writers EXCEPT ![LangOrder[i]] = Writer_new(size_limit, 1)],
                i + 1)

\* let langfiles = LangFiles::new(&self.dst)?;
Construct ==
    /\ driver = "new"
    /\ \E failing \in (IF faults THEN SUBSET LANG ELSE {{}}) :
        LET r == LangFiles_new_result(part_size_bytes, failing,
                                      LangFilesDoc_new, 1) IN
        /\ registry' = r.writers
        /\ created' = [l \in LANG |->
                            IF r.writers[l] # NoWriter THEN 1 ELSE 0]
        /\ driver' = IF r.ok THEN "for_each" ELSE "Err"
    /\ UNCHANGED <<variant, part_size_bytes, threads, mutex, rwReaders,
                   nextShard, pc, sorted_sentences, cur, idx, ctodo,
                   closeCalls, calls, events, expected, kept, over_records,
                   envVars>>

\* A write to a file fails during the flush: the unwrap() on the result
\* panics in the worker, and the panic unwinds out of for_each and run.
WriteFails(w) ==
    /\ driver = "for_each"
    /\ faults
    /\ pc[w] \in {"content", "meta"}
    /\ driver' = "panic"
    /\ UNCHANGED <<threadVars, over_records, envVars>>

\* for_each has consumed the shard iterator and every closure has returned:
\* run returns Ok(()).
ReturnOk ==
    /\ driver = "for_each"
    /\ nextShard > shards
    /\ \A w \in Workers : pc[w] = "idle"
    /\ driver' = "Ok"
    /\ UNCHANGED <<threadVars, over_records, envVars>>

Next ==
    \/ \E w \in Workers : TakeShard(w)
    \/ \E w \in Workers : Acquire(w)
    \/ \E w \in Workers : WriteContent(w)
    \/ \E w \in Workers : WriteMeta(w)
    \/ \E w \in Workers : WriteMetaRelease(w)

\* The dynamic writer set adds insert_writer.
NextDoc ==
    \/ Next
    \/ \E w \in Workers : InsertWriter(w)

\* The owner of the writer set may call close_meta between its writes.
NextApi ==
    \/ NextDoc
    \/ \E w \in Workers : CloseMetaBegin(w)
    \/ \E w \in Workers : CloseMetaOne(w)

\* RayonShard::run over LangFiles (the fixed writer set).
Init == InitOf("Fixed", NbWorkers, PartSizeChoices)
Spec == Init /\ [][Next]_vars

\* Two threads following the same flush protocol over LangFilesDoc (the
\* dynamic writer set).
InitDoc == InitOf("Dynamic", 2, PartSizeChoices)
SpecDoc == InitDoc /\ [][NextDoc]_vars

\* RayonShard::run from its first statement to its outcome, on a pool of two
\* threads and in an environment that may fail; run hands no part size to
\* LangFiles::new.
NextRun ==
    \/ Next
    \/ ListShards
    \/ Construct
    \/ \E w \in Workers : WriteFails(w)
    \/ ReturnOk

InitRunOf(faulty, n) ==
    /\ InitThreads(n)
    /\ driver = "read_dir"
    /\ faults = faulty
    /\ dir \in Dirs(faulty)
    /\ shards = 0
    /\ \E lim \in LimitChoices : nb_shards = lim /\ nb_records = lim
    /\ filtered_out = 0
    /\ NothingUnderTest

InitRun == InitRunOf(TRUE, 2)
SpecRun == InitRun /\ [][NextRun]_vars

\* The steps a thread takes once it is scheduled: everything but the choice
\* to call close_meta.
WorkerStep(w) ==
    \/ TakeShard(w)
    \/ InsertWriter(w)
    \/ Acquire(w)
    \/ WriteContent(w)
    \/ WriteMeta(w)
    \/ WriteMetaRelease(w)
    \/ CloseMetaOne(w)

\* The flush protocol over either writer set, with close_meta calls by the
\* threads, up to the return of the run, in an environment that does not
\* fail.
NextFair ==
    \/ NextApi
    \/ ReturnOk

InitFair == \E v \in {"Fixed", "Dynamic"} : InitOf(v, NbWorkers, {None})

\* Every thread that can take a step eventually takes one (the operating
\* system schedules every runnable thread), and run returns once for_each is
\* over.
Fairness ==
    /\ \A w \in Workers : WF_vars(WorkerStep(w))
    /\ WF_vars(ReturnOk)

SpecFair == InitFair /\ [][NextFair]_vars /\ Fairness

\* A single-threaded client of either writer set, which writes and calls
\* close_meta in any order.
InitApi == \E v \in {"Fixed", "Dynamic"} : InitOf(v, 1, PartSizeChoices)
SpecApi == InitApi /\ [][NextApi]_vars

\* ---------------------------------------------------------------- helpers
RECURSIVE Flatten(_)
Flatten(ss) == IF Len(ss) = 0 THEN <<>> ELSE Head(ss) \o Flatten(Tail(ss))

Registered(l) == registry[l] # NoWriter

\* Item ids in the content stream of l, over all parts, in order.
Content(l) == Flatten(registry[l].parts)

\* Ids of the metadata entries found in a metadata file, framing ignored.
EntryIds(f) ==
    LET e == SelectSeq(f, IsEntry) IN [i \in 1..Len(e) |-> EntryId(e[i])]

\* Items handed to the write calls on l that have returned, in call order.
Submitted(l) == Flatten(calls[l])
SubmittedIds(l) == LET s == Submitted(l) IN [i \in 1..Len(s) |-> s[i].id]
SubmittedSizes(l) == LET s == Submitted(l) IN [i \in 1..Len(s) |-> s[i].size]

AllDone == nextShard > shards /\ \A w \in Workers : pc[w] = "idle"

\* No write call and no pending close_meta visit on l.
Settled(l) == ~mutex[l] /\ ~ClosePending(l)

MetaValid(l) ==
    \A p \in 1..Len(registry[l].metas) : FrameValid(registry[l].metas[p])

\* Rotation boundaries crossed by items of the given sizes written in order
\* to a fresh writer: acc bytes and cnt items are in the current part.
RECURSIVE Boundaries(_, _, _, _)
Boundaries(sizes, limit, acc, cnt) ==
    IF Len(sizes) = 0 THEN 0
    ELSE IF limit # None /\ acc + Head(sizes) > limit[1] /\ cnt > 0
         THEN 1 + Boundaries(Tail(sizes), limit, Head(sizes), 1)
         ELSE Boundaries(Tail(sizes), limit, acc + Head(sizes), cnt + 1)

\* ------------------------------------------------------------------ claims

\* C1: for every language at most one worker holds (is writing through) its
\* writer at any time, the flush step of the shard workers included.
C1_OneHolderPerLanguage ==
    \A l \in LANG : Cardinality({w \in Workers : Holds(w, l)}) <= 1

\* C1 witness: a worker writes through a writer while another worker waits
\* for the same writer.
C1_Witness ==
    \E l \in LANG : \E w1, w2 \in Workers :
        /\ w1 # w2
        /\ Holds(w1, l)
        /\ pc[w2] = "get" /\ cur[w2] = l

C3_OneInstanceConstructed == \A l \in LANG : created[l] <= 1

C5_NoEmptyPart ==
    \A l \in LANG : Registered(l) =>
        \A p \in 1..Len(registry[l].parts) : Len(registry[l].parts[p]) > 0

\* C5 (amended): a part is empty only if it is the first part of a writer
\* to which nothing has been written yet; every part a rotation creates
\* holds at least one item, oversized or not.
C5_OnlyFreshFirstPartEmpty ==
    \A l \in LANG : Registered(l) =>
        \A p \in 1..Len(registry[l].parts) :
            Len(registry[l].parts[p]) = 0 =>
                /\ p = 1
                /\ Len(registry[l].parts) = 1
                /\ registry[l].bytes = 0

\* C5 witness: items larger than part_size_bytes were written and each sits
\* alone in a part.
C5_Witness ==
    /\ part_size_bytes = Some(10)
    /\ \E l \in LANG :
        /\ Len(registry[l].parts) >= 3
        /\ \A p \in 1..Len(registry[l].parts) : Len(registry[l].parts[p]) = 1

C7_UnsetNeverRotates ==
    part_size_bytes = None =>
        \A l \in LANG : Registered(l) =>
            registry[l].part = 0 /\ Len(registry[l].parts) = 1

\* C7 witness: part_size_bytes is unset and a writer holds three items
\* (60 bytes) in its only part.
C7_Witness ==
    /\ part_size_bytes = None
    /\ \E l \in LANG : Registered(l) /\ Len(registry[l].parts[1]) >= 3

\* C8: whenever a language's writer is not held, its content and metadata
\* streams hold the same items in the same order, part by part.
C8_ContentMetaLockStep ==
    \A l \in LANG : (Registered(l) /\ ~mutex[l]) =>
        /\ Len(registry[l].metas) = Len(registry[l].parts)
        /\ \A p \in 1..Len(registry[l].parts) :
                EntryIds(registry[l].metas[p]) = registry[l].parts[p]

\* C8 witness: a writer that is not held has rotated and holds the items of
\* two write calls.
C8_Witness ==
    \E l \in LANG :
        /\ ~mutex[l]
        /\ registry[l].part >= 1
        /\ Len(calls[l]) = 2
        /\ Len(Content(l)) >= 3

C12_ClosedOnceBeforeDone == driver = "Ok" => closeCalls = 1

\* C13 (as claimed): with nb_shards = n at most n shards are processed, and
\* with nb_records = m at most m records of each shard are processed.
C13_LimitsRespected ==
    /\ nb_shards # None => nextShard - 1 <= nb_shards[1]
    /\ ~over_records

\* C14 (as claimed): no run is aborted by a record that the archive reader
\* returns as an error.
C14_RecordErrorNeverAborts ==
    ~(driver = "panic" /\ Len(wet) > 0 /\ ~Head(wet).ok)

\* C14, for RayonShard::run alone: a record that is an error or whose body
\* is not valid UTF-8 gives no item and stops nothing: whenever no writer is
\* held, the output of a
\* language holds every line of the flushed write calls, and when the run
\* returns Ok every shard was processed and the output of each language
\* holds exactly the qualifying lines of the records that could be read.
C14_BadRecordsSkipped ==
    /\ driver = "Ok" =>
        /\ nextShard - 1 = shards
        /\ \A l \in LANG : Len(Content(l)) = expected[l]
    /\ driver \in {"for_each", "Ok"} =>
        \A l \in LANG : ~mutex[l] => Content(l) = SubmittedIds(l)

\* C14 witness: the run returned Ok after a single shard of two records (more
\* records than nb_records = 1) of which exactly one gave a line: the other
\* was an error or undecodable.
C14_Witness ==
    /\ driver = "Ok"
    /\ shards = 1
    /\ over_records
    /\ expected["en"] + expected["fr"] = 1
    /\ Len(Content("en")) + Len(Content("fr")) = 1

\* C15 (as claimed): a failure to write a file during a flush ends the run
\* with an error value returned by run, never otherwise.
C15_FailureIsErrValue == driver # "panic"

\* C16: process_record answers None for a body that is not valid UTF-8;
\* otherwise it answers the lines of the body that have more than 100
\* characters, for which the classifier gives a prediction and whose top
\* label is in LANG, each once, in body order, with that label.  A body
\* of a 120-character line labelled "fr" and a 5-character line gives
\* exactly that one line, for "fr".
C16_ProcessRecordFilters ==
    results.done =>
        IF ~record.utf8 THEN results.value = None
        ELSE /\ results.value # None
             /\ LET out == results.value[1]
                    body == record.lines
                    Qualifies(i) == /\ body[i].chars > 100
                                    /\ body[i].pred \in LANG IN
                /\ \A j \in DOMAIN out :
                        /\ out[j][1] \in DOMAIN body
                        /\ Qualifies(out[j][1])
                        /\ out[j][2] = body[out[j][1]].pred
                /\ \A i \in DOMAIN body :
                        Qualifies(i) => \E j \in DOMAIN out : out[j][1] = i
                /\ \A j, k \in DOMAIN out : j < k => out[j][1] < out[k][1]
                /\ (/\ Len(body) = 2
                    /\ body[1].chars = 120 /\ body[1].pred = "fr"
                    /\ body[2].chars = 5)
                        => out = << <<1, "fr">> >>

\* C16 witness: process_record has answered for a body of a 120-character
\* line labelled "fr" and a 5-character line.
C16_Witness ==
    /\ results.done
    /\ record.utf8
    /\ Len(record.lines) = 2
    /\ record.lines[1].chars = 120 /\ record.lines[1].pred = "fr"
    /\ record.lines[2].chars = 5
    /\ results.value = Some(<< <<1, "fr">> >>)

\* C17: after any sequence of insert calls on a fresh ShardContent, the
\* vector of a language holds exactly the sentences inserted for it, in
\* insertion order, and a language has an entry exactly when a sentence was
\* inserted for it; an insert changes the vector of its language only.
C17_InsertKeepsOrder ==
    /\ [](\A l \in LANG :
            LET mine == SelectSeq(inserted, LAMBDA c : c[2] = l) IN
            /\ aggregator[l] = [j \in 1..Len(mine) |-> mine[j][1]]
            /\ (l \in Keys(aggregator)) <=> (Len(mine) > 0))
    /\ [][\A l \in LANG :
            (Len(inserted') = Len(inserted) + 1
                /\ inserted'[Len(inserted')][2] # l)
                    => aggregator'[l] = aggregator[l]]_vars

\* C17 witness: three inserts were made, two languages have an entry and one
\* of them holds two sentences.
C17_Witness ==
    /\ Len(inserted) = 3
    /\ Keys(aggregator) = LANG
    /\ \E l \in LANG : Len(aggregator[l]) = 2

\* C20: under fair scheduling and without file errors the run returns: every
\* thread that waits for the Mutex of a writer obtains it, every thread that
\* waits for the write lock of the registry obtains it, every close_meta
\* call returns, and run reaches Ok.
C20_RunTerminates ==
    /\ <>(driver = "Ok")
    /\ \A w \in Workers : \A l \in LANG :
            (pc[w] = "get" /\ cur[w] = l) ~> Holds(w, l)
    /\ \A w \in Workers : (pc[w] = "insert") ~> (pc[w] = "get")
    /\ \A w \in Workers : (pc[w] = "closing") ~> (pc[w] = "idle")

\* C20 witness: a thread waits for registry-exclusive access (insert_writer)
\* while another thread holds a read guard on the registry, after a write
\* call on the language has returned.
C20_Witness ==
    /\ variant = "Dynamic"
    /\ \E w1, w2 \in Workers :
        /\ pc[w1] = "insert"
        /\ pc[w2] = "closing" /\ rwReaders > 0
        /\ Len(calls[cur[w1]]) >= 1

\* C18: the listing keeps exactly the entries that are readable WET archives,
\* in a directory that can be enumerated, and fails the run only when the
\* directory cannot be enumerated; a run that returns Ok has processed every
\* shard the listing kept.
C18_BadEntriesFiltered ==
    /\ [][driver = "read_dir" /\ driver' # "read_dir" =>
            IF dir.readable
            THEN /\ driver' = "new"
                 /\ shards' = Cardinality({i \in DOMAIN dir.entries :
                                            dir.entries[i] = "wet"})
            ELSE driver' = "Err"]_vars
    /\ [](driver = "Ok" => nextShard - 1 = shards)

\* C18 witness: the run returned Ok, the listing had dropped a bad entry and
\* the shard it kept was processed and flushed.
C18_Witness ==
    /\ driver = "Ok"
    /\ filtered_out >= 1
    /\ shards >= 1
    /\ nextShard - 1 = shards
    /\ \E l \in LANG : Len(Content(l)) >= 1

\* C19: LangFiles::new either registers one writer for every language of
\* LANG or fails and registers none; once constructed, the set of registered
\* languages never changes and every language has its writer.
C19_FixedSetAllOrNothing ==
    /\ [][driver = "new" /\ driver' # "new" =>
            \/ /\ driver' = "for_each"
               /\ \A l \in LANG : registry'[l] # NoWriter /\ created'[l] = 1
            \/ /\ driver' = "Err"
               /\ \A l \in LANG : registry'[l] = NoWriter]_vars
    /\ [][driver = "for_each" =>
            \A l \in LANG : /\ registry[l] # NoWriter
                            /\ registry'[l] # NoWriter
                            /\ registry'[l].inst = registry[l].inst
                            /\ created'[l] = created[l]]_vars

\* C19 witness: after a successful construction a worker has looked a
\* language up and writes through its writer.
C19_Witness ==
    /\ driver = "for_each"
    /\ \E w \in Workers, l \in LANG : Holds(w, l)

\* The URL of the document matches the blocklist: by its domain or as a URL.
Matches(b, d) ==
    /\ parse_url(d) # None
    /\ detect_domain(b, parse_url(d)[1]) \/ detect_url(b, parse_url(d)[1])

\* The annotation the claim asks for: the kind of the blocklist when the URL
\* matches, the annotation the document came with otherwise.
Annotated(b, d) == IF Matches(b, d) THEN Some(b.kind) ELSE d.annotation

\* C21 (as claimed): once transform and transform_own have both been called
\* on a document, neither has failed, both leave the same annotation, and
\* that annotation is the kind of the blocklist exactly when the target URL
\* matches the blocklist; a document with a missing or unparseable target
\* URL keeps its annotation.
C21_EntryPointsAgree ==
    (in_place.done /\ by_value.done) =>
        /\ ~in_place.panicked
        /\ ~by_value.panicked
        /\ in_place.annotation = by_value.annotation
        /\ by_value.annotation = Annotated(bl, doc)

\* C21, for transform_own alone: it never fails and leaves the annotation
\* the claim asks for.
C21_TransformOwnTotal ==
    by_value.done =>
        /\ ~by_value.panicked
        /\ by_value.annotation = Annotated(bl, doc)

\* C21, for transform_own alone: it was called on a document whose URL is
\* blocked as a URL and not by its domain, and has annotated it.
C21_Witness ==
    /\ by_value.done
    /\ Matches(bl, doc)
    /\ ~detect_domain(bl, parse_url(doc)[1])
    /\ by_value.annotation = Some(bl.kind)

====
